---------------------------- MODULE Spec2Model ----------------------------
(***************************************************************************)
(* Model of src/core.py: the TelegramBot facade (sendRequest, getUpdate,   *)
(* sendMsg, sendMsgToAdmin, sendKeyboard, deletMessage, writeLog,          *)
(* errorHandler) and the two keyboard serializers.                         *)
(*                                                                         *)
(* Python strings are modelled as sequences of tokens (TLA+ strings);      *)
(* string concatenation is \o.  Punctuation is always a token of one       *)
(* character, so that result[:-1] removes exactly the last token.          *)
(* The program is single threaded: the call stack of sendRequest           *)
(* activations is the variable stack, and the remote server is the         *)
(* environment that answers the request of the topmost activation.         *)
(***************************************************************************)
EXTENDS Integers, Sequences, FiniteSets, TLC

VARIABLES
    TIMEOUT,        \* self.TIMEOUT
    ADMINCHATID,    \* self.ADMINCHATID (0 = not configured)
    LOGFILEPATH,    \* self.LOGFILEPATH (0 = not configured)
    offset,         \* self.offset, the update cursor
    stack,          \* activations of sendRequest, innermost last
    logFile,        \* content of the log file: sequence of written blocks
    op,             \* facade operation of the current / last call
    ret,            \* what the last facade call gave back to its caller
    calls,          \* number of facade calls made so far
    returned,       \* history: update ids getUpdate returned, in order
    nreq,           \* history: HTTP requests issued by the current call
    adminSends,     \* history: admin notifications attempted by error handling in the current call
    failed,         \* history: failure of the facade's own request in the current call
    start,          \* history: bot fields and log at the start of the current call
    kbGrid,         \* keyboard serializers: the button grid
    kbInline,       \* keyboard serializers: str(InlineKeyboard(kbGrid)) or <<>>
    kbReply         \* keyboard serializers: str(ReplyKeyboard(kbGrid)) or <<>>

vars == <<TIMEOUT, ADMINCHATID, LOGFILEPATH, offset, stack, logFile, op, ret,
          calls, returned, nreq, adminSends, failed, start,
          kbGrid, kbInline, kbReply>>

botVars == <<TIMEOUT, ADMINCHATID, LOGFILEPATH>>
kbVars == <<kbGrid, kbInline, kbReply>>

----------------------------------------------------------------------------
(* Bounds *)

MaxCalls == 3           \* facade calls per behaviour
MaxUpdateId == 2        \* largest update_id the server hands out
RecursionLimit == 3     \* nested sendRequest activations the interpreter stack holds
MaxLogBlocks == 1       \* a facade call starts only while the log holds fewer blocks
MaxRows == 2            \* rows of a button grid
MaxCols == 2            \* buttons of a row

----------------------------------------------------------------------------
(* Sequences *)

Range(s) == {s[i] : i \in 1..Len(s)}

SeqUpTo(S, n) == UNION {[1..k -> S] : k \in 0..n}

Max(S) == CHOOSE x \in S : \A y \in S : y <= x

Top == stack[Len(stack)]

----------------------------------------------------------------------------
(* Keyboard serializers *)

DQ == "\""

InlineButton(text) ==
    <<"{", DQ, "text", DQ, ":", DQ>> \o text
        \o <<DQ, ",", DQ, "callback_data", DQ, ":", DQ>> \o text \o <<DQ, "}">>

RECURSIVE InlineRow(_)
InlineRow(row) ==
    IF row = <<>> THEN <<>> ELSE InlineButton(Head(row)) \o InlineRow(Tail(row))

RECURSIVE InlineRows(_)
InlineRows(rows) ==
    IF rows = <<>> THEN <<>>
    ELSE <<"[">> \o InlineRow(Head(rows)) \o <<"]", ",">> \o InlineRows(Tail(rows))

DropLast(s) == SubSeq(s, 1, Len(s) - 1)

InlineKeyboardStr(inlineButtons) ==
    LET result == <<"{", DQ, "inline_keyboard", DQ, ":", "[">> \o InlineRows(inlineButtons)
    IN  DropLast(result) \o <<"]", "}">>

ReplyButton(button) == <<DQ>> \o button \o <<DQ>>

RECURSIVE ReplyRow(_)
ReplyRow(row) ==
    IF row = <<>> THEN <<>> ELSE ReplyButton(Head(row)) \o ReplyRow(Tail(row))

RECURSIVE ReplyRows(_)
ReplyRows(rows) ==
    IF rows = <<>> THEN <<>>
    ELSE <<"[">> \o ReplyRow(Head(rows)) \o <<"]", ",">> \o ReplyRows(Tail(rows))

ReplyKeyboardStr(keyboardButtons) ==
    LET result == <<"{", DQ, "keyboard", DQ, ":", "[">> \o ReplyRows(keyboardButtons)
    IN  DropLast(result) \o <<"]">>
        \o <<",", DQ, "resize_keyboard", DQ, ":", "true",
             ",", DQ, "one_time_keyboard", DQ, ":", "true", "}">>

----------------------------------------------------------------------------
(* Values *)

URL == "https://api.telegram.org/bot<TOKEN>/"

None == [type |-> "None", ids |-> <<>>, exc |-> ""]
Updates(ids) == [type |-> "list", ids |-> ids, exc |-> ""]
Message == [type |-> "dict", ids |-> <<>>, exc |-> ""]
True == [type |-> "bool", ids |-> <<>>, exc |-> ""]
Raised(exc) == [type |-> "raised", ids |-> <<>>, exc |-> exc]
Pending == [type |-> "pending", ids |-> <<>>, exc |-> ""]

\* Python truth value of a result of sendRequest
Truthy(r) == r.type \in {"dict", "bool"} \/ (r.type = "list" /\ r.ids # <<>>)

Str(n) == <<ToString(n)>>

ChatIds == {42}
Texts == {<<"hello">>}
MessageIds == {5}
Timeouts == {60, 3600}
AdminIds == {0, 99}
LogPaths == {0, 1}
Labels == {<<"a">>, <<"b">>, <<DQ>>}
Keyboards == {InlineKeyboardStr(<<<<(<<"a">>)>>>>), ReplyKeyboardStr(<<<<(<<"a">>)>>>>)}

----------------------------------------------------------------------------
(* sendRequest: building the request *)

Punctuation == {"{", "}", "[", "]", ":", ",", DQ, "'", "=", "&", "<", ">", "/"}

\* quote_plus of one token: unreserved characters are kept, the others are
\* percent-escaped
Quote(t) == IF t \in Punctuation THEN "%" \o t ELSE t

QuoteAll(s) == [i \in 1..Len(s) |-> Quote(s[i])]

RECURSIVE urlencode(_)
urlencode(data) ==
    IF data = <<>> THEN <<>>
    ELSE <<Head(data).key, "=">> \o QuoteAll(Head(data).val)
         \o (IF Tail(data) = <<>> THEN <<>> ELSE <<"&">>)
         \o urlencode(Tail(data))

NoErr == [kind |-> "none", desc |-> "", body |-> <<>>]
NoMsg == [isStr |-> TRUE, toks |-> <<>>]

\* A new activation of sendRequest, its request on the wire (lines 30-33).
\* notify: the activation was started by error handling (sendMsgToAdmin).
NewFrame(method, data, notify) ==
    [method |-> method, fields |-> data, data |-> urlencode(data),
     pc |-> "urlopen", err |-> NoErr, msg |-> NoMsg, retval |-> None,
     notify |-> notify]

getUpdateDataFromZero(off, timeout) ==
    << [key |-> "offset", val |-> Str(0)],
       [key |-> "limit", val |-> Str(1)],
       [key |-> "timeout", val |-> Str(timeout)] >>

getUpdateData(off, timeout) ==
    << [key |-> "offset", val |-> Str(off)],
       [key |-> "limit", val |-> Str(1)],
       [key |-> "timeout", val |-> Str(timeout)] >>

sendMsgData(chatID, text) ==
    << [key |-> "chat_id", val |-> chatID], [key |-> "text", val |-> text] >>

sendKeyboardData(chatID, text, keyboard) ==
    << [key |-> "chat_id", val |-> chatID], [key |-> "text", val |-> text],
       [key |-> "reply_markup", val |-> keyboard] >>

deletMessageData(chatID, message_id) ==
    << [key |-> "chat_id", val |-> chatID], [key |-> "message_id", val |-> message_id] >>

----------------------------------------------------------------------------
(* errorHandler and writeLog *)

\* Python truth value of self.ADMINCHATID / self.LOGFILEPATH
AdminConfiguredAlways(admin) == TRUE

AdminConfigured(admin) == admin # 0
LogConfigured(path) == path # 0

\* str(dict) of a dict whose entries are <<key, value tokens>>
RECURSIVE StrItems(_)
StrItems(d) ==
    IF d = <<>> THEN <<>>
    ELSE <<"'", Head(d).key, "'", ":">> \o Head(d).val
         \o (IF Tail(d) = <<>> THEN <<>> ELSE <<",">>)
         \o StrItems(Tail(d))

StrDict(d) == <<"{">> \o StrItems(d) \o <<"}">>

\* the response envelope of an ok:false answer, the dict loads() returns
Envelope(desc) ==
    << [key |-> "ok", val |-> <<"False">>],
       [key |-> "error_code", val |-> <<"400">>],
       [key |-> "description", val |-> <<"'", desc, "'">>] >>

\* error.__traceback__.tb_frame.f_locals: the traceback of an exception caught
\* in sendRequest starts at sendRequest's own frame, whose locals are these
FrameLocals(f) ==
    << [key |-> "self", val |-> <<"<TelegramBot object>">>],
       [key |-> "method", val |-> <<"'", f.method, "'">>],
       [key |-> "data", val |-> <<"b'">> \o f.data \o <<"'">>],
       [key |-> "newRequest", val |-> <<"<Request object>">>],
       [key |-> "error", val |-> <<f.err.desc>>] >>

\* dict.pop(name, None)
pop(tb, name) == SelectSeq(tb, LAMBDA e : e.key # name)

\* the diagnostic message errorHandler builds for the failure of activation f
errorHandlerMsg(f) ==
    IF f.err.kind = "http"
    THEN [isStr |-> TRUE, toks |-> <<URL, f.method, "\n">> \o f.err.body]
    ELSE LET tb == pop(pop(pop(pop(FrameLocals(f), "chatID"), "text"), "keyboard"), "url")
         IN  [isStr |-> TRUE,
              toks |-> <<f.err.desc, "\n", "<frame sendRequest>", "\n">> \o StrDict(tb)]

\* the message of the ok:false branch of sendRequest: the response dict itself
notOkMsg(f) == [isStr |-> FALSE, toks |-> StrDict(Envelope(f.err.desc))]

asctime == "Sun Nov  1 12:00:00 2026"

\* what writeLog writes for a message that is a str
LogBlock(msg) == <<"----------", "\n", asctime, "\n">> \o msg \o <<"\n">>

SetTop(f) == [stack EXCEPT ![Len(stack)] = f]

\* an exception leaves sendRequest: no activation below handles it, each one is
\* in its except clause or its else clause, so it reaches the facade's caller
Raise(exc) ==
    /\ stack' = <<>>
    /\ ret' = Raised(exc)

\* "if self.ADMINCHATID: self.sendMsgToAdmin(msg)" for the topmost activation f,
\* whose next statement is the log write
ReportToAdmin(f) ==
    IF AdminConfigured(ADMINCHATID)
    THEN IF Len(stack) >= RecursionLimit
         THEN /\ Raise("RecursionError")
              /\ UNCHANGED <<nreq, adminSends>>
         ELSE /\ stack' = Append(SetTop([f EXCEPT !.pc = "log"]),
                                 NewFrame("sendMessage",
                                          sendMsgData(Str(ADMINCHATID), f.msg.toks), TRUE))
              /\ nreq' = nreq + 1
              /\ adminSends' = adminSends + 1
              /\ ret' = ret
    ELSE /\ stack' = SetTop([f EXCEPT !.pc = "log"])
         /\ UNCHANGED <<nreq, adminSends, ret>>

----------------------------------------------------------------------------
(* The facade operations: each starts an activation of sendRequest *)

Idle == stack = <<>>

Call(name, method, data) ==
    /\ calls < MaxCalls
    /\ Len(logFile) < MaxLogBlocks
    /\ calls' = calls + 1
    /\ op' = name
    /\ stack' = <<NewFrame(method, data, FALSE)>>
    /\ ret' = Pending
    /\ nreq' = 1
    /\ adminSends' = 0
    /\ failed' = NoErr
    /\ start' = [offset |-> offset, cfg |-> botVars, log |-> logFile]
    /\ UNCHANGED <<botVars, offset, logFile, returned, kbVars>>

getUpdate ==
    /\ Idle
    /\ Call("getUpdate", "getUpdates", getUpdateData(offset, TIMEOUT))

sendMsg ==
    /\ Idle
    /\ \E chatID \in ChatIds, text \in Texts :
        Call("sendMsg", "sendMessage", sendMsgData(Str(chatID), text))

sendMsgToAdmin ==
    /\ Idle
    /\ \E msg \in Texts :
        Call("sendMsgToAdmin", "sendMessage", sendMsgData(Str(ADMINCHATID), msg))

sendKeyboard ==
    /\ Idle
    /\ \E chatID \in ChatIds, text \in Texts, keyboard \in Keyboards :
        Call("sendKeyboard", "sendMessage", sendKeyboardData(Str(chatID), text, keyboard))

deletMessage ==
    /\ Idle
    /\ \E chatID \in ChatIds, message_id \in MessageIds :
        Call("deletMessage", "deleteMessage", deletMessageData(Str(chatID), Str(message_id)))

----------------------------------------------------------------------------
(* The remote server and the network: the outcome of urlopen *)

Waiting == stack # <<>> /\ Top.pc = "urlopen"

\* the results an ok:true answer can carry; a poll with offset o is answered
\* with no update or with one update whose update_id is >= o
Results(f) ==
    IF f.method = "getUpdates"
    THEN {Updates(<<>>)} \cup
         {Updates(<<u>>) : u \in {v \in 0..MaxUpdateId :
                                    \E o \in 0..v : f.fields[1].val = Str(o)}}
    ELSE IF f.method = "deleteMessage" THEN {True} ELSE {Message}

Fail(err) ==
    /\ stack' = SetTop([Top EXCEPT !.err = err,
                                   !.pc = IF err.kind = "notok" THEN "notok" ELSE "except"])
    /\ failed' = IF Len(stack) = 1 THEN err ELSE failed
    /\ UNCHANGED <<botVars, offset, logFile, op, ret, calls, returned, nreq,
                   adminSends, start, kbVars>>

RespondOk ==
    /\ Waiting
    /\ \E r \in Results(Top) :
          stack' = SetTop([Top EXCEPT !.retval = r, !.pc = "return"])
    /\ UNCHANGED <<botVars, offset, logFile, op, ret, calls, returned, nreq,
                   adminSends, failed, start, kbVars>>

RespondNotOk ==
    /\ Waiting
    /\ Fail([kind |-> "notok", desc |-> "Bad Request", body |-> <<>>])

RespondHTTPError ==
    /\ Waiting
    /\ Fail([kind |-> "http", desc |-> "HTTP Error 403",
          body |-> StrDict(Envelope("Forbidden"))])

RespondException ==
    /\ Waiting
    /\ Fail([kind |-> "exc", desc |-> "<urlopen error timed out>", body |-> <<>>])

----------------------------------------------------------------------------
(* sendRequest after urlopen *)

\* except Exception as error: self.errorHandler(error), up to the admin send
errorHandler ==
    /\ stack # <<>>
    /\ Top.pc = "except"
    /\ ReportToAdmin([Top EXCEPT !.msg = errorHandlerMsg(Top)])
    /\ UNCHANGED <<botVars, offset, logFile, op, calls, returned, failed, start, kbVars>>

\* else: if not response["ok"], up to the admin send
notOk ==
    /\ stack # <<>>
    /\ Top.pc = "notok"
    /\ ReportToAdmin([Top EXCEPT !.msg = notOkMsg(Top)])
    /\ UNCHANGED <<botVars, offset, logFile, op, calls, returned, failed, start, kbVars>>

\* "if self.LOGFILEPATH: self.writeLog(msg)"; the activation then falls off
\* its end and returns None.  str + dict raises TypeError inside writeLog.
writeLog ==
    /\ stack # <<>>
    /\ Top.pc = "log"
    /\ IF LogConfigured(LOGFILEPATH)
       THEN IF Top.msg.isStr
            THEN /\ logFile' = Append(logFile, LogBlock(Top.msg.toks))
                 /\ stack' = SetTop([Top EXCEPT !.pc = "return", !.retval = None])
                 /\ ret' = ret
            ELSE /\ Raise("TypeError")
                 /\ logFile' = logFile
       ELSE /\ stack' = SetTop([Top EXCEPT !.pc = "return", !.retval = None])
            /\ UNCHANGED <<logFile, ret>>
    /\ UNCHANGED <<botVars, offset, op, calls, returned, nreq, adminSends,
                   failed, start, kbVars>>

NewOffsetSameId(response) == response.ids[1]

\* getUpdate, lines 51-52
NewOffset(response) == response.ids[1] + 1

\* the topmost activation returns: to the error handling that sent the admin
\* message (which drops the value), or to the facade operation and its caller
return ==
    /\ stack # <<>>
    /\ Top.pc = "return"
    /\ stack' = DropLast(stack)
    /\ IF Len(stack) = 1
       THEN /\ ret' = Top.retval
            /\ IF op = "getUpdate" /\ Truthy(Top.retval)
               THEN /\ offset' = NewOffset(Top.retval)
                    /\ returned' = Append(returned, Top.retval.ids[1])
               ELSE UNCHANGED <<offset, returned>>
       ELSE UNCHANGED <<ret, offset, returned>>
    /\ UNCHANGED <<botVars, logFile, op, calls, nreq, adminSends, failed, start, kbVars>>

----------------------------------------------------------------------------
(* Specification of the bot *)

Init ==
    /\ TIMEOUT \in Timeouts
    /\ ADMINCHATID \in AdminIds
    /\ LOGFILEPATH \in LogPaths
    /\ offset = 0
    /\ stack = <<>>
    /\ logFile = <<>>
    /\ op = "none"
    /\ ret = Pending
    /\ calls = 0
    /\ returned = <<>>
    /\ nreq = 0
    /\ adminSends = 0
    /\ failed = NoErr
    /\ start = [offset |-> 0, cfg |-> botVars, log |-> <<>>]
    /\ kbGrid = <<>>
    /\ kbInline = <<>>
    /\ kbReply = <<>>

Next ==
    \/ getUpdate
    \/ sendMsg
    \/ sendMsgToAdmin
    \/ sendKeyboard
    \/ deletMessage
    \/ RespondOk
    \/ RespondNotOk
    \/ RespondHTTPError
    \/ RespondException
    \/ errorHandler
    \/ notOk
    \/ writeLog
    \/ return

Spec == Init /\ [][Next]_vars

----------------------------------------------------------------------------
(* Specification of the keyboard serializers: __str__ applied to a grid *)

Rows == SeqUpTo(Labels, MaxCols)
Grids == SeqUpTo(Rows, MaxRows)

InitKb ==
    /\ TIMEOUT = 3600
    /\ ADMINCHATID = 0
    /\ LOGFILEPATH = 0
    /\ offset = 0
    /\ stack = <<>>
    /\ logFile = <<>>
    /\ op = "none"
    /\ ret = Pending
    /\ calls = 0
    /\ returned = <<>>
    /\ nreq = 0
    /\ adminSends = 0
    /\ failed = NoErr
    /\ start = [offset |-> 0, cfg |-> botVars, log |-> <<>>]
    /\ kbGrid \in Grids
    /\ kbInline = <<>>
    /\ kbReply = <<>>

InlineKeyboard__str__ ==
    /\ kbInline = <<>>
    /\ kbInline' = InlineKeyboardStr(kbGrid)
    /\ UNCHANGED <<botVars, offset, stack, logFile, op, ret, calls, returned,
                   nreq, adminSends, failed, start, kbGrid, kbReply>>

ReplyKeyboard__str__ ==
    /\ kbReply = <<>>
    /\ kbReply' = ReplyKeyboardStr(kbGrid)
    /\ UNCHANGED <<botVars, offset, stack, logFile, op, ret, calls, returned,
                   nreq, adminSends, failed, start, kbGrid, kbInline>>

NextKb == InlineKeyboard__str__ \/ ReplyKeyboard__str__

SpecKb == InitKb /\ [][NextKb]_vars

----------------------------------------------------------------------------
(* Reference JSON serialization, for the properties of the serializers *)

JsonChar(c) == IF c \in {DQ, "\\"} THEN <<"\\", c>> ELSE <<c>>

RECURSIVE JsonEscape(_)
JsonEscape(label) ==
    IF label = <<>> THEN <<>> ELSE JsonChar(Head(label)) \o JsonEscape(Tail(label))

JsonString(label) == <<DQ>> \o JsonEscape(label) \o <<DQ>>

\* JSON array of the elements item(x), x in xs
RECURSIVE JsonElems(_, _)
JsonElems(item(_), xs) ==
    IF xs = <<>> THEN <<>>
    ELSE item(Head(xs)) \o (IF Tail(xs) = <<>> THEN <<>> ELSE <<",">>)
         \o JsonElems(item, Tail(xs))

JsonArray(item(_), xs) == <<"[">> \o JsonElems(item, xs) \o <<"]">>

RefInlineButton(label) ==
    <<"{", DQ, "text", DQ, ":">> \o JsonString(label)
        \o <<",", DQ, "callback_data", DQ, ":">> \o JsonString(label) \o <<"}">>

RefInlineRow(row) == JsonArray(RefInlineButton, row)

RefInline(G) ==
    <<"{", DQ, "inline_keyboard", DQ, ":">> \o JsonArray(RefInlineRow, G) \o <<"}">>

RefReplyRow(row) == JsonArray(JsonString, row)

RefReply(G) ==
    <<"{", DQ, "keyboard", DQ, ":">> \o JsonArray(RefReplyRow, G)
        \o <<",", DQ, "resize_keyboard", DQ, ":", "true",
             ",", DQ, "one_time_keyboard", DQ, ":", "true", "}">>

\* C8: for every button grid, str(InlineKeyboard(G)) is the reference JSON
\* serialization of G: one array per row, one {"text","callback_data"} object
\* per button, both fields equal to the label.
C8_InlineIsReferenceJson == kbInline # <<>> => kbInline = RefInline(kbGrid)

\* C9: for every button grid, str(ReplyKeyboard(G)) is the reference JSON
\* serialization of G: the keyboard array mirrors G, and resize_keyboard and
\* one_time_keyboard are true.
C9_ReplyIsReferenceJson == kbReply # <<>> => kbReply = RefReply(kbGrid)

----------------------------------------------------------------------------
(* Properties of the bot *)

\* the facade's own request of the current call failed
FacadeFailed == failed.kind # "none"

\* the text by which a failure describes itself: the description of the
\* envelope, the body of the HTTP error, the string form of the exception
FailureText(err) == IF err.kind = "http" THEN Range(err.body) ELSE {err.desc}

\* C1: no exception escapes a facade call to its caller, whatever the failure
\* and whatever the configuration of administrator id and log path.
C1_NoExceptionEscapes == ret.type # "raised"

\* C2: the cursor is 0 while getUpdate has returned no update, and otherwise
\* 1 + the largest update_id returned so far; it has not decreased since the
\* current call started, and no update_id has been returned twice.
C2_CursorInvariant ==
    /\ offset = IF returned = <<>> THEN 0 ELSE 1 + Max(Range(returned))
    /\ start.offset <= offset
    /\ \A i, j \in 1..Len(returned) : i # j => returned[i] # returned[j]

\* two updates were returned, with a call that returned none among the three
C2_Witness ==
    /\ Idle
    /\ calls = 3
    /\ Len(returned) = 2
    /\ returned[2] > returned[1] + 1

\* C3: with an administrator id configured, a failed facade request leads to
\* exactly one admin notification, whose text includes the failure's
\* description, whatever the outcome of the notification itself.
C3_ExactlyOneAdminSend ==
    (ADMINCHATID # 0 /\ FacadeFailed) =>
        /\ adminSends <= 1
        /\ Idle => adminSends = 1
        /\ Len(stack) >= 2 => FailureText(failed) \subseteq Range(stack[2].fields[2].val)

\* C4: a facade call returns after a bounded number of HTTP requests: its own
\* request and at most one notification; a failure is never followed by a
\* chain of further requests that ends only when the stack is exhausted.
C4_FailureIsTerminal ==
    /\ nreq <= 2
    /\ ret.exc # "RecursionError"

\* C5: every getUpdates request carries offset = the cursor, limit = 1 and
\* timeout = the configured timeout, the cursor being 1 + the update_id of the
\* most recent update returned (0 if none); a poll that returned update u
\* leaves the cursor at u + 1.
C5_PollRequest ==
    /\ \A i \in 1..Len(stack) :
          stack[i].method = "getUpdates" =>
              /\ stack[i].fields =
                    << [key |-> "offset", val |-> <<ToString(offset)>>],
                       [key |-> "limit", val |-> <<"1">>],
                       [key |-> "timeout", val |-> <<ToString(TIMEOUT)>>] >>
              /\ stack[i].data =
                    <<"offset", "=", ToString(offset), "&", "limit", "=", "1", "&",
                      "timeout", "=", ToString(TIMEOUT)>>
              /\ offset = IF returned = <<>> THEN 0
                          ELSE returned[Len(returned)] + 1
    /\ (Idle /\ op = "getUpdate" /\ ret.type = "list" /\ ret.ids # <<>>) =>
          offset = ret.ids[1] + 1

\* a poll is on the wire as the third call, after an update was returned
C5_Witness ==
    /\ stack # <<>>
    /\ stack[1].method = "getUpdates"
    /\ calls = 3
    /\ returned # <<>>
    /\ offset > 1

\* C6: with a log path configured, a failed facade request appends exactly one
\* block (separator, non-empty timestamp, diagnostic message) to the log and
\* leaves the earlier blocks as they were, with or without an administrator id.
C6_OneLogBlockPerFailure ==
    (Idle /\ LOGFILEPATH # 0 /\ FacadeFailed) =>
        /\ Len(logFile) = Len(start.log) + 1
        /\ SubSeq(logFile, 1, Len(start.log)) = start.log
        /\ LET block == logFile[Len(logFile)]
           IN  /\ SubSeq(block, 1, 2) = <<"----------", "\n">>
               /\ block[3] # ""
               /\ block[4] = "\n"
               /\ FailureText(failed) \subseteq Range(block)

\* C7: with no administrator id and no log path, a transport failure of sendMsg
\* gives an absent result and no exception, sends no further request, writes
\* no log and leaves cursor and configuration unchanged.
C7_SilentTransportFailure ==
    (op = "sendMsg" /\ ADMINCHATID = 0 /\ LOGFILEPATH = 0 /\ failed.kind = "exc") =>
        /\ nreq = 1
        /\ Len(stack) <= 1
        /\ ret.type # "raised"
        /\ Idle => ret = None
        /\ logFile = start.log
        /\ offset = start.offset
        /\ botVars = start.cfg

\* sendMsg ended after a transport failure with nothing configured
C7_Witness ==
    /\ Idle
    /\ op = "sendMsg"
    /\ ADMINCHATID = 0
    /\ LOGFILEPATH = 0
    /\ failed.kind = "exc"
    /\ ret = None

\* the user data of a request: the values of its form fields, as sent
UserData(f) == UNION {Range(QuoteAll(f.fields[k].val)) : k \in 1..Len(f.fields)}

\* C10: the diagnostic message of a sendMsg or sendKeyboard call that failed
\* with a non-HTTP exception, handed to the admin channel or the log, contains
\* none of the call's user data: chat id, text, keyboard payload, target URL.
C10_NoUserDataInDiagnostic ==
    (/\ stack # <<>>
     /\ op \in {"sendMsg", "sendKeyboard"}
     /\ stack[1].err.kind = "exc"
     /\ stack[1].pc \in {"log", "return"}
     /\ ADMINCHATID # 0 \/ LOGFILEPATH # 0) =>
        Range(stack[1].msg.toks) \cap (UserData(stack[1]) \cup {URL}) = {}

============================================================================
